---------------------------- MODULE Spec2Model ----------------------------
(***************************************************************************)
(* PinePace road-advisory engine (src/MapScreen.tsx).                      *)
(*                                                                         *)
(* Strings are sequences of one-character strings, so that toLowerCase,    *)
(* trim and includes are computed rather than assumed.  An optional value  *)
(* (undefined / null in the source) is a sequence of length 0 or 1:        *)
(* None is <<>>, Some(x) is <<x>>.                                          *)
(*                                                                         *)
(* Units: positions are planar metres (x, y); distances are kept squared   *)
(* (m^2); loc.coords.speed is in decimetres per second; userSpeed is in    *)
(* hundredths of km/h, so that speed * 3.6 is exact (36 per dm/s).         *)
(***************************************************************************)
EXTENDS Integers, Sequences, FiniteSets, TLC

VARIABLES
    roadFeatures,     \* baguioRoads.features, the Road Index (static)
    watching,         \* "idle" | "granted" | "denied": the location effect
    cbUserSpeed,      \* userSpeed as captured by the watch callback's closure
    now,              \* Date.now(), ms
    userLocationRef,  \* useRef: None | Some(point)
    userSpeed,        \* useState, hundredths of km/h
    currentRoad,      \* useState: None | Some(name)
    lastSpokenRef,    \* useRef, ms
    lastFix,          \* None | Some([at, pos, speed]): the fix last handled
    speechLog,        \* utterances handed to Speech.speak, in order
    searches,         \* the invocations of handleSearch, in order of issue
    routeCoords,      \* useState: the route polyline
    routeRoads,       \* useState: the matched roads
    routeFrom,        \* index in searches of the invocation that last set routeCoords (0: none)
    roadsFrom,        \* index in searches of the invocation that last set routeRoads (0: none)
    showLegend,       \* useState
    alerts,           \* Alert.alert calls, in order
    searchText,       \* useState
    suggestions       \* useState

vars ==
    <<roadFeatures, watching, cbUserSpeed, now, userLocationRef, userSpeed,
      currentRoad, lastSpokenRef, lastFix, speechLog, searches, routeCoords,
      routeRoads, routeFrom, roadsFrom, showLegend, alerts, searchText,
      suggestions>>

fixVars ==
    <<now, userLocationRef, userSpeed, currentRoad, lastSpokenRef, lastFix>>

searchVars ==
    <<searches, routeCoords, routeRoads, routeFrom, roadsFrom, showLegend>>

suggestVars ==
    <<searchText, suggestions>>

----------------------------------------------------------------------------
(* Optional values *)

None ==
    <<>>

Some(x) ==
    <<x>>

\* a ?? b
Coalesce(a, b) ==
    IF a # None THEN a[1] ELSE b

----------------------------------------------------------------------------
(* Road names *)

SessionRoad ==
    <<"S", "e", "s", "s", "i", "o", "n", " ", "R", "o", "a", "d">>
MarcosHighway ==
    <<"M", "a", "r", "c", "o", "s", " ", "H", "i", "g", "h", "w", "a", "y">>
KennonRoad ==
    <<"K", "e", "n", "n", "o", "n", " ", "R", "o", "a", "d">>
NaguilianRoad ==
    <<"N", "a", "g", "u", "i", "l", "i", "a", "n", " ", "R", "o", "a", "d">>
AsinRoad ==
    <<"A", "s", "i", "n", " ", "R", "o", "a", "d">>
LoakanRoad ==
    <<"L", "o", "a", "k", "a", "n", " ", "R", "o", "a", "d">>
HalsemaHighway ==
    <<"H", "a", "l", "s", "e", "m", "a", " ", "H", "i", "g", "h", "w", "a", "y">>
MagsaysayAvenue ==
    <<"M", "a", "g", "s", "a", "y", "s", "a", "y", " ", "A", "v", "e", "n", "u", "e">>
GovernorPackRoad ==
    <<"G", "o", "v", "e", "r", "n", "o", "r", " ", "P", "a", "c", "k", " ", "R", "o", "a", "d">>
MilitaryCutOffRoad ==
    <<"M", "i", "l", "i", "t", "a", "r", "y", " ", "C", "u", "t", "-", "O", "f", "f", " ", "R", "o", "a", "d">>
PineTrail ==
    <<"P", "i", "n", "e", " ", "T", "r", "a", "i", "l">>
Unnamed ==
    <<"U", "n", "n", "a", "m", "e", "d">>
EmptyString ==
    <<>>

\* const roadsSpeeds: Record<string, number>
roadsSpeeds ==
    (SessionRoad :> 20) @@ (MarcosHighway :> 60) @@ (KennonRoad :> 50) @@
    (NaguilianRoad :> 50) @@ (AsinRoad :> 40) @@ (LoakanRoad :> 40) @@
    (HalsemaHighway :> 50) @@ (MagsaysayAvenue :> 30) @@
    (GovernorPackRoad :> 30) @@ (MilitaryCutOffRoad :> 20)

\* roadsSpeeds[key]: undefined for a key the record does not have
TableLookup(key) ==
    IF key \in DOMAIN roadsSpeeds THEN Some(roadsSpeeds[key]) ELSE None

DefaultLimit ==
    30

ProximityMeters ==
    30

CooldownMs ==
    7000

OverspeedMargin ==
    3

MaxSuggestions ==
    5

----------------------------------------------------------------------------
(* Geometry: @turf/point-to-line-distance on planar metres.  A feature's    *)
(* geometry is None when it is missing or not a LineString (the turf calls  *)
(* throw on it), otherwise Some(sequence of points).  The distance is the   *)
(* minimum over the segments of the point-to-segment distance, kept squared *)
(* so that it is an integer; the model's road geometries are axis-parallel, *)
(* for which the division below is exact.                                   *)

Infinity ==
    1000000000

Pt(x, y) ==
    [x |-> x, y |-> y]

Sq(n) ==
    n * n

Min2(a, b) ==
    IF b < a THEN b ELSE a

DistSqToSegment(p, a, b) ==
    LET dx == b.x - a.x
        dy == b.y - a.y
        len2 == Sq(dx) + Sq(dy)
        t == (p.x - a.x) * dx + (p.y - a.y) * dy
        pa2 == Sq(p.x - a.x) + Sq(p.y - a.y)
        pb2 == Sq(p.x - b.x) + Sq(p.y - b.y)
    IN  IF len2 = 0 \/ t <= 0 THEN pa2
        ELSE IF t >= len2 THEN pb2
        ELSE pa2 - (Sq(t) \div len2)

RECURSIVE DistSqFrom(_, _, _)
DistSqFrom(p, coords, k) ==
    IF k >= Len(coords) THEN Infinity
    ELSE Min2(DistSqToSegment(p, coords[k], coords[k + 1]),
              DistSqFrom(p, coords, k + 1))

\* pointToLineDistance(point, line, {units: "meters"}), squared
pointToLineDistanceSq(p, coords) ==
    DistSqFrom(p, coords, 1)

\* the turf call throws on this feature
Throws(road) ==
    road.geometry = None

WithinProximity(distSq) ==
    distSq <= Sq(ProximityMeters)

----------------------------------------------------------------------------
(* The Road Index: the bundled dataset, loaded once (baguioRoads.features). *)

Feature(name, limit, geometry) ==
    [name |-> name, speed_limit |-> limit, geometry |-> geometry]

Line(a, b) ==
    Some(<<a, b>>)

\* ties, the 30 m boundary, explicit limit over table, a name outside the table
IndexA ==
    << Feature(Some(SessionRoad), None, Line(Pt(0, 0), Pt(100, 0))),
       Feature(Some(KennonRoad), Some(45), Line(Pt(0, 60), Pt(100, 60))),
       Feature(Some(PineTrail), None,
               Some(<<Pt(200, 0), Pt(200, 50), Pt(250, 50)>>)) >>

\* a malformed geometry ahead of well-formed ones
IndexB ==
    << Feature(Some(AsinRoad), None, None),
       Feature(Some(PineTrail), None, Line(Pt(0, 20), Pt(100, 20))),
       Feature(Some(SessionRoad), Some(25), Line(Pt(0, 0 - 40), Pt(100, 0 - 40))) >>

\* two features of one name with different limits
IndexC ==
    << Feature(Some(LoakanRoad), Some(20), Line(Pt(0, 0), Pt(100, 0))),
       Feature(Some(LoakanRoad), None, Line(Pt(0, 40), Pt(100, 40))),
       Feature(Some(MagsaysayAvenue), None, Line(Pt(0, 100), Pt(100, 100))),
       Feature(Some(HalsemaHighway), None, Line(Pt(200, 0), Pt(200, 100))) >>

\* a feature without a name, an empty name
IndexD ==
    << Feature(None, None, Line(Pt(0, 0), Pt(100, 0))),
       Feature(Some(MarcosHighway), None, Line(Pt(0, 20), Pt(100, 20))),
       Feature(Some(EmptyString), Some(40), Line(Pt(0, 60), Pt(100, 60))) >>

HLine(y) ==
    Line(Pt(0, y), Pt(100, y))

\* the ten roads of the speed table, with no explicit limits
IndexE ==
    << Feature(Some(SessionRoad), None, HLine(0)),
       Feature(Some(MarcosHighway), None, HLine(20)),
       Feature(Some(KennonRoad), None, HLine(60)),
       Feature(Some(NaguilianRoad), None, HLine(1000)),
       Feature(Some(AsinRoad), None, HLine(2000)),
       Feature(Some(LoakanRoad), None, HLine(3000)),
       Feature(Some(HalsemaHighway), None, HLine(4000)),
       Feature(Some(MagsaysayAvenue), None, HLine(5000)),
       Feature(Some(GovernorPackRoad), None, HLine(6000)),
       Feature(Some(MilitaryCutOffRoad), None, HLine(7000)) >>

\* the datasets of the fix and search specifications
RoadIndexes ==
    {IndexA, IndexB, IndexC, IndexD}

\* the datasets of the suggestion filter's specification
SuggestIndexes ==
    RoadIndexes \cup {IndexE}

----------------------------------------------------------------------------
(* Bounds and inputs *)

Epoch ==
    100000

HalfCooldown ==
    3500

MaxElapsed ==
    10503

ClockSteps ==
    {HalfCooldown, HalfCooldown + 1}

FixPositions ==
    {Pt(50, 30), Pt(50, 31), Pt(50, 0 - 30), Pt(50, 0 - 31), Pt(50, 5), Pt(50, 45)}

\* loc.coords.speed: number | null, dm/s (175 dm/s is exactly 63 km/h)
FixSpeeds ==
    {None, Some(175), Some(176)}

----------------------------------------------------------------------------
(* Speech and alerts *)

\* speak(text): Speech.stop(); Speech.speak(text)
speak(log, utterance) ==
    Append(log, utterance)

Advisory(kind, at, road, limit) ==
    [kind |-> kind, at |-> at, road |-> road, limit |-> limit]

IsAdvisory(u) ==
    u.kind \in {"overspeed", "normal"}

----------------------------------------------------------------------------
(* The location effect and the watchPositionAsync callback *)

\* (speed ?? 0) * 3.6, in hundredths of km/h
ToKmh(speed) ==
    Coalesce(speed, 0) * 36

\* road.properties?.name || null
NameOrNull(road) ==
    IF road.name = None \/ road.name[1] = EmptyString THEN None ELSE road.name

\* road.properties?.speed_limit ?? roadsSpeeds[nearest ?? ""] ?? 30
FixLimit(road) ==
    Coalesce(road.speed_limit,
             Coalesce(TableLookup(Coalesce(NameOrNull(road), EmptyString)),
                      DefaultLimit))

NoNearest ==
    [nearest |-> None, limit |-> 0, minDist |-> Infinity]

\* the loop body with <= for <: of two roads at one distance, the later wins
ScanRoadLastWins(acc, road, p) ==
    IF Throws(road) THEN acc
    ELSE LET dist == pointToLineDistanceSq(p, road.geometry[1])
         IN  IF dist <= acc.minDist
             THEN [nearest |-> NameOrNull(road), limit |-> FixLimit(road),
                   minDist |-> dist]
             ELSE acc

\* the body of the for loop, try/catch included
ScanRoad(acc, road, p) ==
    IF Throws(road) THEN acc
    ELSE LET dist == pointToLineDistanceSq(p, road.geometry[1])
         IN  IF dist < acc.minDist
             THEN [nearest |-> NameOrNull(road), limit |-> FixLimit(road),
                   minDist |-> dist]
             ELSE acc

\* the state of the loop after its first k iterations
RECURSIVE ScanUpTo(_, _, _)
ScanUpTo(roads, k, p) ==
    IF k = 0 THEN NoNearest
    ELSE LET acc == ScanUpTo(roads, k - 1, p)
         IN  ScanRoad(acc, roads[k], p)

\* for (const road of roadFeatures) { ... }
NearestRoad(roads, p) ==
    ScanUpTo(roads, Len(roads), p)

\* nearest && minDist <= 30
Matched(scan) ==
    scan.nearest # None /\ WithinProximity(scan.minDist)

\* the cooldown with the boundary included: >= for >
CooldownOverInclusive(t, last) ==
    t - last >= CooldownMs

\* now - lastSpokenRef.current > 7000
CooldownOver(t, last) ==
    t - last > CooldownMs

\* userSpeed > limit + 3, on the userSpeed the callback closed over
Overspeeding(speedKmh, limit) ==
    speedKmh > (limit + OverspeedMargin) * 100

RequestPermission(status) ==
    /\ watching = "idle"
    /\ watching' = status
    /\ IF status = "granted"
       THEN /\ cbUserSpeed' = userSpeed
            /\ alerts' = alerts
       ELSE /\ cbUserSpeed' = cbUserSpeed
            /\ alerts' = alerts \cup {[search |-> 0, title |-> "Permission denied",
                                       message |-> "Location access is required."]}
    /\ UNCHANGED <<roadFeatures, fixVars, speechLog, searchVars, suggestVars>>

Permission ==
    \E status \in {"granted", "denied"} : RequestPermission(status)

Tick ==
    \E d \in ClockSteps :
        /\ now + d <= Epoch + MaxElapsed
        /\ now' = now + d
        /\ UNCHANGED <<roadFeatures, watching, cbUserSpeed, userLocationRef,
                       userSpeed, currentRoad, lastSpokenRef, lastFix, speechLog,
                       searchVars, alerts, suggestVars>>

HandleFix(p, speed) ==
    LET scan == NearestRoad(roadFeatures, p)
        announce == Matched(scan) /\ CooldownOver(now, lastSpokenRef)
        kind == IF Overspeeding(cbUserSpeed, scan.limit) THEN "overspeed" ELSE "normal"
    IN  /\ watching = "granted"
        /\ userLocationRef' = Some(p)
        /\ userSpeed' = ToKmh(speed)
        /\ lastFix' = Some([at |-> now, pos |-> p, speed |-> speed])
        /\ currentRoad' = IF Matched(scan) THEN scan.nearest ELSE currentRoad
        /\ speechLog' = IF announce
                        THEN speak(speechLog,
                                   Advisory(kind, now, scan.nearest[1], scan.limit))
                        ELSE speechLog
        /\ lastSpokenRef' = IF announce THEN now ELSE lastSpokenRef
        /\ UNCHANGED <<roadFeatures, watching, cbUserSpeed, now, searchVars,
                       alerts, suggestVars>>

Fix ==
    \E p \in FixPositions, speed \in FixSpeeds : HandleFix(p, speed)

----------------------------------------------------------------------------

InitWith(indexes) ==
    /\ roadFeatures \in indexes
    /\ watching = "idle"
    /\ cbUserSpeed = 0
    /\ now = Epoch
    /\ userLocationRef = None
    /\ userSpeed = 0
    /\ currentRoad = None
    /\ lastSpokenRef = 0
    /\ lastFix = None
    /\ speechLog = <<>>
    /\ searches = <<>>
    /\ routeCoords = <<>>
    /\ routeRoads = <<>>
    /\ routeFrom = 0
    /\ roadsFrom = 0
    /\ showLegend = FALSE
    /\ alerts = {}
    /\ searchText = EmptyString
    /\ suggestions = <<>>

Init ==
    InitWith(RoadIndexes)

NextFix ==
    \/ Permission
    \/ Tick
    \/ Fix

SpecFix ==
    Init /\ [][NextFix]_vars

----------------------------------------------------------------------------
(* handleSearch: an async function; each invocation is a record of its own  *)
(* locals, suspended at one of its two awaits or finished.                  *)

MaxSearches ==
    2

Blank ==
    <<" ">>

Queries ==
    {Blank, KennonRoad}

GeoResponses ==
    {"throw", "empty", "found"}

RouteEmpty ==
    <<>>
RouteNorth ==
    <<Pt(50, 100), Pt(50, 70)>>
RouteMid ==
    <<Pt(50, 29)>>

\* routeJson.routes[0].geometry.coordinates
Routes ==
    {RouteEmpty, RouteNorth, RouteMid}

RouteResponses ==
    {<<"throw">>, <<"none">>} \cup {<<"route", r>> : r \in Routes}

IsSpace(c) ==
    c = " "

RECURSIVE TrimStart(_)
TrimStart(text) ==
    IF text # <<>> /\ IsSpace(Head(text)) THEN TrimStart(Tail(text)) ELSE text

RECURSIVE TrimEnd(_)
TrimEnd(text) ==
    IF text # <<>> /\ IsSpace(text[Len(text)])
    THEN TrimEnd(SubSeq(text, 1, Len(text) - 1))
    ELSE text

\* text.trim()
Trim(text) ==
    TrimEnd(TrimStart(text))

Alert(i, title, message) ==
    [search |-> i, title |-> title, message |-> message]

getColorForSpeed(limit) ==
    IF limit <= 20 THEN "yellow"
    ELSE IF limit <= 30 THEN "orange"
    ELSE IF limit <= 40 THEN "red"
    ELSE "green"

\* road.properties?.name ?? "Unnamed"
NameOrUnnamed(road) ==
    Coalesce(road.name, Unnamed)

\* the table consulted before the feature's own limit
SearchLimitTableFirst(road) ==
    Coalesce(TableLookup(NameOrUnnamed(road)),
             Coalesce(road.speed_limit, DefaultLimit))

\* road.properties?.speed_limit ?? roadsSpeeds[name] ?? 30
SearchLimit(road) ==
    Coalesce(road.speed_limit,
             Coalesce(TableLookup(NameOrUnnamed(road)), DefaultLimit))

\* the push without the find: one entry per matching coordinate
PushAlways(matched, road) ==
    Append(matched,
           [name |-> NameOrUnnamed(road), speed_limit |-> SearchLimit(road),
            color |-> getColorForSpeed(SearchLimit(road))])

\* if (!matched.find((m) => m.name === name)) matched.push(...)
PushOnce(matched, road) ==
    IF \E k \in 1..Len(matched) : matched[k].name = NameOrUnnamed(road)
    THEN matched
    ELSE Append(matched,
                [name |-> NameOrUnnamed(road), speed_limit |-> SearchLimit(road),
                 color |-> getColorForSpeed(SearchLimit(road))])

\* the inner loop: for (const [lon, lat] of coordinates) { ... }
\* matched after the first k coordinates of the route, for one road
RECURSIVE MatchCoords(_, _, _, _)
MatchCoords(matched, road, coords, k) ==
    IF k = 0 THEN matched
    ELSE LET before == MatchCoords(matched, road, coords, k - 1)
         IN  IF WithinProximity(pointToLineDistanceSq(coords[k], road.geometry[1]))
             THEN PushOnce(before, road)
             ELSE before

\* the outer loop: for (const road of roadFeatures) { ... }: matched after k roads
RECURSIVE MatchRoads(_, _, _)
MatchRoads(roads, k, coords) ==
    IF k = 0 THEN <<>>
    ELSE LET before == MatchRoads(roads, k - 1, coords)
         IN  MatchCoords(before, roads[k], coords, Len(coords))

\* pointToLineDistance throws inside the loops, which no try guards
ScanThrows(roads, coords) ==
    coords # <<>> /\ \E k \in 1..Len(roads) : Throws(roads[k])

\* the location check skipped
NoUserLocSkipped(userLoc) ==
    FALSE

\* !userLoc
NoUserLoc(userLoc) ==
    userLoc = None

Finish(i, kind) ==
    [searches EXCEPT ![i].pc = "done", ![i].outcome = kind]

\* a new search that aborts the searches still in flight
handleSearchAborting(query) ==
    /\ Len(searches) < MaxSearches
    /\ searches' = IF Trim(query) = EmptyString
                   THEN searches
                   ELSE Append([k \in DOMAIN searches |->
                                   IF searches[k].pc = "done" THEN searches[k]
                                   ELSE [searches[k] EXCEPT !.pc = "done",
                                                            !.outcome = "aborted"]],
                               [query |-> query, pc |-> "geocoding", geo |-> None,
                                userLoc |-> None, route |-> None,
                                outcome |-> "pending"])
    /\ UNCHANGED <<roadFeatures, watching, cbUserSpeed, fixVars, speechLog,
                   routeCoords, routeRoads, routeFrom, roadsFrom, showLegend,
                   alerts, suggestVars>>

handleSearch(query) ==
    /\ Len(searches) < MaxSearches
    /\ searches' = IF Trim(query) = EmptyString
                   THEN searches
                   ELSE Append(searches,
                               [query |-> query, pc |-> "geocoding", geo |-> None,
                                userLoc |-> None, route |-> None,
                                outcome |-> "pending"])
    /\ UNCHANGED <<roadFeatures, watching, cbUserSpeed, fixVars, speechLog,
                   routeCoords, routeRoads, routeFrom, roadsFrom, showLegend,
                   alerts, suggestVars>>

Search ==
    \E query \in Queries : handleSearch(query)

\* the continuation after the geocoder's answer: lines 140-156
GeoResponse(i, resp) ==
    /\ searches[i].pc = "geocoding"
    /\ IF resp = "throw"
       THEN /\ searches' = [Finish(i, "Error") EXCEPT ![i].geo = Some(resp)]
            /\ alerts' = alerts \cup {Alert(i, "Error", "Failed to find route.")}
       ELSE IF resp = "empty"
       THEN /\ searches' = [Finish(i, "NotFound") EXCEPT ![i].geo = Some(resp)]
            /\ alerts' = alerts \cup {Alert(i, "Not found", "Could not find that location.")}
       ELSE IF NoUserLoc(userLocationRef)
       THEN /\ searches' = [Finish(i, "LocationUnavailable") EXCEPT ![i].geo = Some(resp)]
            /\ alerts' = alerts \cup {Alert(i, "Error", "User location not yet detected.")}
       ELSE /\ searches' = [searches EXCEPT ![i].pc = "routing",
                                            ![i].geo = Some(resp),
                                            ![i].userLoc = userLocationRef]
            /\ alerts' = alerts
    /\ UNCHANGED <<roadFeatures, watching, cbUserSpeed, fixVars, speechLog,
                   routeCoords, routeRoads, routeFrom, roadsFrom, showLegend,
                   suggestVars>>

Geocoded ==
    \E i \in DOMAIN searches, resp \in GeoResponses : GeoResponse(i, resp)

\* the continuation after the router's answer: lines 159-198
RouteResponse(i, resp) ==
    /\ searches[i].pc = "routing"
    /\ IF resp[1] = "throw"
       THEN /\ searches' = [Finish(i, "Error") EXCEPT ![i].route = Some(resp)]
            /\ alerts' = alerts \cup {Alert(i, "Error", "Failed to find route.")}
            /\ UNCHANGED <<routeCoords, routeRoads, routeFrom, roadsFrom,
                           showLegend, speechLog>>
       ELSE IF resp[1] = "none"
       THEN /\ searches' = [Finish(i, "RoutingFailed") EXCEPT ![i].route = Some(resp)]
            /\ alerts' = alerts \cup {Alert(i, "Routing failed", "No route found.")}
            /\ UNCHANGED <<routeCoords, routeRoads, routeFrom, roadsFrom,
                           showLegend, speechLog>>
       ELSE /\ routeCoords' = resp[2]
            /\ routeFrom' = i
            /\ showLegend' = TRUE
            /\ IF ScanThrows(roadFeatures, resp[2])
               THEN /\ searches' = [Finish(i, "Error") EXCEPT ![i].route = Some(resp)]
                    /\ alerts' = alerts \cup {Alert(i, "Error", "Failed to find route.")}
                    /\ UNCHANGED <<routeRoads, roadsFrom, speechLog>>
               ELSE /\ searches' = [Finish(i, "ok") EXCEPT ![i].route = Some(resp)]
                    /\ routeRoads' = MatchRoads(roadFeatures, Len(roadFeatures), resp[2])
                    /\ roadsFrom' = i
                    /\ speechLog' = speak(speechLog,
                                          Advisory("route", now, searches[i].query, 0))
                    /\ alerts' = alerts
    /\ UNCHANGED <<roadFeatures, watching, cbUserSpeed, fixVars, suggestVars>>

Routed ==
    \E i \in DOMAIN searches, resp \in RouteResponses : RouteResponse(i, resp)

\* the fixes of the searches' specification: one near the first road, one near the second
SearchFixPositions ==
    {Pt(50, 5), Pt(50, 45)}

SearchFixSpeeds ==
    {Some(64)}

SearchFix ==
    \E p \in SearchFixPositions, speed \in SearchFixSpeeds : HandleFix(p, speed)

NextSearch ==
    \/ Permission
    \/ SearchFix
    \/ Search
    \/ Geocoded
    \/ Routed

SpecSearch ==
    Init /\ [][NextSearch]_vars

----------------------------------------------------------------------------
(* handleSearchChange: the suggestion filter *)

MaxTextLen ==
    3

TextAlphabet ==
    {"a", "D", " "}

Texts ==
    UNION {[1..n -> TextAlphabet] : n \in 0..MaxTextLen}

UpperCase ==
    <<"A", "B", "C", "D", "E", "F", "G", "H", "I", "J", "K", "L", "M",
      "N", "O", "P", "Q", "R", "S", "T", "U", "V", "W", "X", "Y", "Z">>

LowerCase ==
    <<"a", "b", "c", "d", "e", "f", "g", "h", "i", "j", "k", "l", "m",
      "n", "o", "p", "q", "r", "s", "t", "u", "v", "w", "x", "y", "z">>

ToLowerChar(c) ==
    IF \E k \in DOMAIN UpperCase : UpperCase[k] = c
    THEN LowerCase[CHOOSE k \in DOMAIN UpperCase : UpperCase[k] = c]
    ELSE c

\* text.toLowerCase()
toLowerCase(text) ==
    [k \in DOMAIN text |-> ToLowerChar(text[k])]

\* hay.includes(needle)
includes(hay, needle) ==
    \E off \in 0..(Len(hay) - Len(needle)) :
        SubSeq(hay, off + 1, off + Len(needle)) = needle

\* the name compared as written, only the text lowered
NameIncludesCaseSensitive(road, text) ==
    /\ road.name # None
    /\ includes(road.name[1], toLowerCase(text))

\* r.properties?.name?.toLowerCase().includes(text.toLowerCase())
NameIncludes(road, text) ==
    /\ road.name # None
    /\ includes(toLowerCase(road.name[1]), toLowerCase(text))

\* roadFeatures.filter(...)
RECURSIVE FilterRoads(_, _, _)
FilterRoads(roads, text, k) ==
    IF k > Len(roads) THEN <<>>
    ELSE IF NameIncludes(roads[k], text)
         THEN <<roads[k]>> \o FilterRoads(roads, text, k + 1)
         ELSE FilterRoads(roads, text, k + 1)

\* matches.slice(0, 5)
Slice(matches) ==
    SubSeq(matches, 1, IF Len(matches) < MaxSuggestions THEN Len(matches)
                       ELSE MaxSuggestions)

Suggest(roads, text) ==
    IF Trim(text) = EmptyString THEN <<>>
    ELSE Slice(FilterRoads(roads, text, 1))

handleSearchChange(text) ==
    /\ searchText' = text
    /\ suggestions' = Suggest(roadFeatures, text)
    /\ UNCHANGED <<roadFeatures, watching, cbUserSpeed, fixVars, speechLog,
                   searchVars, alerts>>

Edit ==
    \E text \in Texts : handleSearchChange(text)

NextSuggest ==
    \/ Edit

InitSuggest ==
    InitWith(SuggestIndexes)

SpecSuggest ==
    InitSuggest /\ [][NextSuggest]_vars

Next ==
    \/ NextFix
    \/ NextSearch
    \/ NextSuggest

Spec ==
    InitSuggest /\ [][Next]_vars

----------------------------------------------------------------------------
(* Vocabulary of the properties *)

\* the features of the index whose geometry can be measured
WellFormed ==
    {k \in DOMAIN roadFeatures : roadFeatures[k].geometry # None}

DistSqTo(k, p) ==
    pointToLineDistanceSq(p, roadFeatures[k].geometry[1])

\* the feature at minimum distance from p, the earliest in index order among equals
Closest(p) ==
    CHOOSE k \in WellFormed :
        \A j \in WellFormed :
            \/ DistSqTo(k, p) < DistSqTo(j, p)
            \/ DistSqTo(k, p) = DistSqTo(j, p) /\ k <= j

\* some feature is within 30 m of p: the nearest one is
ClosestWithin30(p) ==
    WellFormed # {} /\ DistSqTo(Closest(p), p) <= 900

HasName(road) ==
    road.name # None /\ road.name[1] # <<>>

\* the nearest feature is within 30 m of p and has a name
NamedClosestWithin30(p) ==
    ClosestWithin30(p) /\ HasName(roadFeatures[Closest(p)])

\* explicit feature limit, else the table's entry for the name, else 30
ResolvedLimit(road) ==
    IF road.speed_limit # None THEN road.speed_limit[1]
    ELSE IF road.name # None /\ road.name[1] \in DOMAIN roadsSpeeds
         THEN roadsSpeeds[road.name[1]]
         ELSE 30

\* this step handles a fix
FixStep ==
    lastFix' # lastFix

FixPos ==
    lastFix'[1].pos

\* the speed of the fix handled in this step, in hundredths of km/h
FixKmh ==
    IF lastFix'[1].speed = None THEN 0 ELSE lastFix'[1].speed[1] * 36

\* this step hands one more utterance to the speech surface
Spoke ==
    Len(speechLog') = Len(speechLog) + 1

Uttered ==
    speechLog'[Len(speechLog')]

NewAdvisory ==
    Spoke /\ IsAdvisory(Uttered)

AdvisoryTimes ==
    {speechLog[k].at : k \in {j \in DOMAIN speechLog : IsAdvisory(speechLog[j])}}

----------------------------------------------------------------------------
(* C1 *)

\* C1: after an advisory at time t, no fix handled up to and including
\* t + 7000 ms produces another advisory, on the same road or another; a fix
\* handled at t + 7001 ms or later that matches a road within 30 m (the handler's
\* match: the nearest feature lies within 30 m and has a name) produces a new
\* advisory and records its own time as the announcement timestamp.
C1_Cooldown ==
    [][FixStep =>
        /\ \A t \in AdvisoryTimes : now <= t + 7000 => speechLog' = speechLog
        /\ ( /\ AdvisoryTimes # {}
             /\ \A t \in AdvisoryTimes : now >= t + 7001
             /\ NamedClosestWithin30(FixPos) )
           => NewAdvisory /\ Uttered.at = now /\ lastSpokenRef' = now]_vars

\* two advisories exactly 7001 ms apart, for different roads
C1_Witness ==
    \E j, k \in DOMAIN speechLog :
        /\ IsAdvisory(speechLog[j]) /\ IsAdvisory(speechLog[k])
        /\ speechLog[k].at = speechLog[j].at + 7001
        /\ speechLog[k].road # speechLog[j].road
        /\ lastSpokenRef = speechLog[k].at

----------------------------------------------------------------------------
(* C2 *)

\* C2: whenever a fix triggers an advisory, the overspeed wording is used if and
\* only if the speed of that fix, in km/h, is strictly greater than the matched
\* road's limit + 3.
C2_OverspeedWording ==
    [][FixStep /\ NewAdvisory =>
        (Uttered.kind = "overspeed" <=> FixKmh > (Uttered.limit + 3) * 100)]_vars

----------------------------------------------------------------------------
(* C10 *)

\* C10 (as stated): on every fix the feature at minimum distance is selected,
\* ties to the earliest; if it is within 30 m the current road becomes its name,
\* cooldown or not; otherwise the current road and the announcement timestamp
\* stay as they were and only the live speed changes.
C10_NearestAnyFeature ==
    [][FixStep =>
        /\ userSpeed' = FixKmh
        /\ IF ClosestWithin30(FixPos)
           THEN currentRoad' = IF HasName(roadFeatures[Closest(FixPos)])
                               THEN roadFeatures[Closest(FixPos)].name
                               ELSE None
           ELSE /\ currentRoad' = currentRoad
                /\ lastSpokenRef' = lastSpokenRef
                /\ speechLog' = speechLog]_vars

\* C10 (amended): the current road becomes the name of the nearest feature when
\* that feature is within 30 m and has a non-empty name; when no feature is
\* within 30 m, or the nearest one has no name, the current road and the
\* announcement timestamp stay as they were and only the live speed changes.
C10_Nearest ==
    [][FixStep =>
        /\ userSpeed' = FixKmh
        /\ IF NamedClosestWithin30(FixPos)
           THEN currentRoad' = roadFeatures[Closest(FixPos)].name
           ELSE /\ currentRoad' = currentRoad
                /\ lastSpokenRef' = lastSpokenRef
                /\ speechLog' = speechLog]_vars

\* a fix equally far (30 m) from two roads, handled during the cooldown of an
\* advisory for the second of them, has made the first the current road
C10_Witness ==
    /\ roadFeatures = IndexA
    /\ lastFix # None
    /\ lastFix[1].pos = Pt(50, 30)
    /\ currentRoad = Some(SessionRoad)
    /\ speechLog # <<>>
    /\ speechLog[Len(speechLog)].road = KennonRoad
    /\ lastSpokenRef = speechLog[Len(speechLog)].at
    /\ lastFix[1].at > lastSpokenRef
    /\ lastFix[1].at <= lastSpokenRef + 7000

----------------------------------------------------------------------------
(* Vocabulary of the route planner's properties *)

\* the failure kind an alert names
KindOf(a) ==
    IF a.title = "Not found" THEN "NotFound"
    ELSE IF a.title = "Routing failed" THEN "RoutingFailed"
    ELSE IF a.title = "Permission denied" THEN "PermissionDenied"
    ELSE IF a.message = "User location not yet detected." THEN "LocationUnavailable"
    ELSE "Error"

\* after this step, search i has been reported to the user as failing with kind, once
Reported(i, kind) ==
    /\ \E a \in alerts' : a.search = i /\ KindOf(a) = kind
    /\ Cardinality({a \in alerts' : a.search = i}) = 1

\* this step handles the geocoder's answer to search i
GeoStep(i) ==
    searches[i].pc = "geocoding" /\ searches'[i].pc # "geocoding"

\* this step handles the router's answer to search i
RouteStep(i) ==
    searches[i].pc = "routing" /\ searches'[i].pc # "routing"

\* this step ends search i with a route in the router's answer
RouteArrived(i) ==
    RouteStep(i) /\ searches'[i].route[1][1] = "route"

RouteOf(i) ==
    searches'[i].route[1][2]

\* this step ends search i in success
Succeeded(i) ==
    RouteStep(i) /\ searches'[i].outcome = "ok"

\* feature k lies within 30 m of some coordinate of the route
NearRoute(k, coords) ==
    /\ k \in WellFormed
    /\ \E c \in DOMAIN coords : DistSqTo(k, coords[c]) <= 900

ColourOf(limit) ==
    CASE limit <= 20 -> "yellow"
      [] limit > 20 /\ limit <= 30 -> "orange"
      [] limit > 30 /\ limit <= 40 -> "red"
      [] OTHER -> "green"

\* the name a feature is listed under: its own, "Unnamed" when it has none
ListedName(road) ==
    IF road.name = None THEN Unnamed ELSE road.name[1]

EntryNames(entries) ==
    {entries[k].name : k \in DOMAIN entries}

\* every entry carries the resolved limit of a matching feature of its name, and
\* that limit's colour
EntriesResolved(entries, coords) ==
    \A k \in DOMAIN entries :
        \E f \in DOMAIN roadFeatures :
            /\ NearRoute(f, coords)
            /\ ListedName(roadFeatures[f]) = entries[k].name
            /\ entries[k].speed_limit = ResolvedLimit(roadFeatures[f])
            /\ entries[k].color = ColourOf(entries[k].speed_limit)

NoDuplicates(entries) ==
    \A j, k \in DOMAIN entries : j # k => entries[j].name # entries[k].name

----------------------------------------------------------------------------
(* C3 *)

\* what C3 says of the geocoder's and router's empty answers, and of what
\* follows a failure
FailuresCommon ==
    /\ \A i \in DOMAIN searches :
        /\ GeoStep(i) /\ searches'[i].geo = Some("empty")
           => Reported(i, "NotFound") /\ searches'[i].pc = "done"
        /\ RouteStep(i) /\ searches'[i].route = Some(<<"none">>)
           => /\ Reported(i, "RoutingFailed")
              /\ searches'[i].pc = "done"
              /\ routeCoords' = routeCoords /\ routeRoads' = routeRoads
        /\ searches[i].pc = "done" => searches'[i] = searches[i]
        /\ (GeoStep(i) /\ searches'[i].pc = "done")
           => routeCoords' = routeCoords /\ routeRoads' = routeRoads

\* C3 (as stated): planRoute fails with NotFound when the geocoder returns no
\* candidates, with LocationUnavailable when no fix has been received, with
\* RoutingFailed when the router returns no route; the failure is reported under
\* that kind and no route request or result follows.
C3_FailuresNoFix ==
    [][/\ FailuresCommon
       /\ \A i \in DOMAIN searches :
            GeoStep(i) /\ searches'[i].geo # Some("throw") /\ userLocationRef = None
            => Reported(i, "LocationUnavailable") /\ searches'[i].pc = "done"]_vars

\* C3 (amended): LocationUnavailable is the failure when the geocoder returned a
\* candidate and no fix has been received; the rest as stated.
C3_Failures ==
    [][/\ FailuresCommon
       /\ \A i \in DOMAIN searches :
            GeoStep(i) /\ searches'[i].geo = Some("found") /\ userLocationRef = None
            => Reported(i, "LocationUnavailable") /\ searches'[i].pc = "done"]_vars

\* one search failed for want of a fix, a later one for want of a route
C3_Witness ==
    \E i, j \in DOMAIN searches :
        /\ searches[i].outcome = "LocationUnavailable"
        /\ searches[j].outcome = "RoutingFailed"
        /\ \E a \in alerts : a.search = i /\ KindOf(a) = "LocationUnavailable"
        /\ \E a \in alerts : a.search = j /\ KindOf(a) = "RoutingFailed"
        /\ routeCoords = <<>>

----------------------------------------------------------------------------
(* C4 *)

\* C4: in the nearest-road scan of a fix and in the road matching of planRoute,
\* a feature with a malformed geometry is left out of that scan only: the other
\* features are still matched and the operation does not fail.
C4_MalformedSkipped ==
    [][/\ FixStep /\ NamedClosestWithin30(FixPos)
          => currentRoad' = roadFeatures[Closest(FixPos)].name
       /\ \A i \in DOMAIN searches :
            RouteArrived(i)
            => /\ searches'[i].outcome = "ok"
               /\ \A k \in DOMAIN roadFeatures :
                    NearRoute(k, RouteOf(i))
                    => ListedName(roadFeatures[k]) \in EntryNames(routeRoads')]_vars

----------------------------------------------------------------------------
(* C5 *)

\* C5 (as stated): after a successful planRoute a name is in matchedRoads if and
\* only if some feature with that name lies within 30 m of a route coordinate,
\* each name once, each entry with the effective limit of a matching feature and
\* that limit's colour (<= 20 yellow, <= 30 orange, <= 40 red, else green).
C5_MatchedRoadsNamedOnly ==
    [][\A i \in DOMAIN searches :
        Succeeded(i)
        => /\ routeCoords' = RouteOf(i)
           /\ EntryNames(routeRoads') =
                {roadFeatures[k].name[1] :
                    k \in {f \in DOMAIN roadFeatures :
                             /\ NearRoute(f, RouteOf(i))
                             /\ roadFeatures[f].name # None}}
           /\ NoDuplicates(routeRoads')
           /\ EntriesResolved(routeRoads', RouteOf(i))]_vars

\* C5 (amended): the same, a feature without a name being listed under the name
\* "Unnamed".
C5_MatchedRoads ==
    [][\A i \in DOMAIN searches :
        Succeeded(i)
        => /\ routeCoords' = RouteOf(i)
           /\ EntryNames(routeRoads') =
                {ListedName(roadFeatures[k]) :
                    k \in {f \in DOMAIN roadFeatures : NearRoute(f, RouteOf(i))}}
           /\ NoDuplicates(routeRoads')
           /\ EntriesResolved(routeRoads', RouteOf(i))]_vars

\* of two features named Loakan Road only the second is near the route (at
\* exactly 30 m): the name is listed once, with that feature's limit and colour
C5_Witness ==
    /\ roadFeatures = IndexC
    /\ routeCoords = RouteNorth
    /\ Len(routeRoads) = 2
    /\ routeRoads[1] = [name |-> LoakanRoad, speed_limit |-> 40, color |-> "red"]
    /\ routeRoads[2] = [name |-> MagsaysayAvenue, speed_limit |-> 30, color |-> "orange"]

----------------------------------------------------------------------------
(* C6 *)

\* C6: the effective limit of a matched feature, in the fix handler and in the
\* route planner, is the feature's own speed_limit when present, otherwise the
\* table's entry for its name, otherwise 30.
C6_LimitResolution ==
    [][/\ FixStep /\ NewAdvisory
          => Uttered.limit = ResolvedLimit(roadFeatures[Closest(FixPos)])
       /\ \A i \in DOMAIN searches :
            Succeeded(i) => EntriesResolved(routeRoads', RouteOf(i))]_vars

\* Session Road, with no limit of its own, announced with the table's 20; Kennon
\* Road listed with its own 45, not the table's 50
C6_Witness ==
    /\ \E k \in DOMAIN speechLog :
        /\ speechLog[k].kind = "normal"
        /\ speechLog[k].road = SessionRoad
        /\ speechLog[k].limit = 20
    /\ \E k \in DOMAIN routeRoads :
        routeRoads[k].name = KennonRoad /\ routeRoads[k].speed_limit = 45

----------------------------------------------------------------------------
(* C8 *)

\* C8: a new search does not cancel a search in flight, and a route that arrives
\* is applied whichever search was issued last, so the earlier search's answer,
\* arriving last, replaces the later search's polyline and matched roads.
C8_NoCancellation ==
    [][/\ Len(searches') > Len(searches)
          => \A i \in DOMAIN searches : searches'[i] = searches[i]
       /\ \A i \in DOMAIN searches :
            Succeeded(i)
            => /\ routeCoords' = RouteOf(i)
               /\ routeFrom' = i
               /\ roadsFrom' = i]_vars

\* both searches succeeded; the polyline and roads shown are those of the first
C8_Witness ==
    /\ Len(searches) = 2
    /\ searches[1].outcome = "ok"
    /\ searches[2].outcome = "ok"
    /\ searches[1].route # searches[2].route
    /\ routeFrom = 1
    /\ roadsFrom = 1
    /\ routeCoords = searches[1].route[1][2]
    /\ routeRoads # <<>>

----------------------------------------------------------------------------
(* C9 *)

\* C9: the polyline and the matched roads shown always come from the same
\* search, and a search that ends in a reported failure leaves both unchanged.
C9_WholeResult ==
    [][/\ routeFrom' = roadsFrom'
       /\ \A i \in DOMAIN searches :
            ( /\ searches[i].pc # "done"
              /\ searches'[i].pc = "done"
              /\ searches'[i].outcome # "ok" )
            => routeCoords' = routeCoords /\ routeRoads' = routeRoads]_vars

----------------------------------------------------------------------------
(* C7 *)

EqualIgnoringCase(a, b) ==
    ToLowerChar(a) = ToLowerChar(b)

\* the name of feature k contains text, case ignored
Contains(k, text) ==
    /\ roadFeatures[k].name # None
    /\ LET name == roadFeatures[k].name[1]
       IN  \E off \in 0..(Len(name) - Len(text)) :
               \A c \in DOMAIN text : EqualIgnoringCase(name[off + c], text[c])

Matching(text) ==
    {k \in DOMAIN roadFeatures : Contains(k, text)}

\* the n-th feature of the index, in index order, among those in set S
Nth(S, n) ==
    CHOOSE k \in S : Cardinality({j \in S : j < k}) = n - 1

\* the first five of S, in index order
FirstFive(S) ==
    [n \in 1..(IF Cardinality(S) < 5 THEN Cardinality(S) ELSE 5) |->
        roadFeatures[Nth(S, n)]]

AllSpaces(text) ==
    \A c \in DOMAIN text : text[c] = " "

\* C7 (as stated): the suggestions shown are those of the latest text: none for
\* the empty text, otherwise the features whose name contains the text, case
\* ignored, in index order, the first five.
C7_SuggestionsEmptyOnly ==
    suggestions = IF searchText = <<>> THEN <<>> ELSE FirstFive(Matching(searchText))

\* C7 (amended): none for a text that is empty or all white space; the rest as
\* stated.
C7_Suggestions ==
    suggestions = IF AllSpaces(searchText) THEN <<>>
                  ELSE FirstFive(Matching(searchText))

\* seven names contain "aD" with case ignored; the first five are shown
C7_Witness ==
    /\ roadFeatures = IndexE
    /\ searchText = <<"a", "D">>
    /\ Cardinality(Matching(searchText)) = 7
    /\ Len(suggestions) = 5
    /\ suggestions[5].name = Some(LoakanRoad)

============================================================================
